---- MODULE Spec2Model ----
(***************************************************************************)
(* A model of src/main.py: the WaveFunctionApp grid, its filled set        *)
(* (_drawn), the four button handlers that run on the Tk main thread and   *)
(* the animation loop that runs on a thread of its own.                    *)
(*                                                                         *)
(* Two specifications share the variables:                                 *)
(*   SpecGrid  - grid construction (step_size, _get_cells, the cells       *)
(*               property) for every small width, height and step_count;   *)
(*   Spec      - the running application: handlers and animation threads   *)
(*               interleaved statement by statement.                       *)
(*                                                                         *)
(* Granularity. Every statement of a handler or of _animate is one step.   *)
(* Where a statement reads shared state and then acts on it in a way the   *)
(* other thread can separate, it is two steps: self.drawn.add(cell) in     *)
(* _animate (attribute read, then add) and the colour_cell calls of reset  *)
(* and _animate (cell.colour read, then create_rectangle). fill_all's      *)
(* colour_cell is one step: only reset, on the same thread, writes another *)
(* colour than the one fill_all has just written. The cells property is    *)
(* two steps while self._cells is None (the test, then _get_cells and the  *)
(* assignment) and one step once the list is cached. Cells are values:     *)
(* Cell.__eq__ and __hash__ use the four coordinates only, so two lists    *)
(* that _get_cells built are equal, and the colour attribute is kept per   *)
(* bounding box. Time is not modelled: the sleeps are steps of any length. *)
(***************************************************************************)
EXTENDS Integers, Sequences, FiniteSets, TLC

\* ------------------------------------------------------------------ bounds
MaxWidth == 3
MaxHeight == 3
MaxStepCount == 4
\* Spec only runs configurations whose grid has at most MaxCells cells.
MaxCells == 2
\* Thread objects that may exist at once (animate creates one per launch).
MaxThreads == 2

\* --------------------------------------------------------------- constants
CELL_DEFAULT_COLOUR == "white"
FILL_COLOUR == "blue"
\* What a cell shows before any create_rectangle was issued for it.
NotDrawn == "none"
\* self._cells before the first access of the cells property.
None == [built |-> FALSE, list |-> <<>>]
\* self._cells once it holds the list that _get_cells returned.
Cached(l) == [built |-> TRUE, list |-> l]

VARIABLES
    width, height, step_count,  \* constructor arguments
    cells,                      \* self._cells: None, or the list of Cell
    error,                      \* exception raised by grid construction
    setOrder,                   \* iteration order of set(self._cells)
    drawn,                      \* self._drawn, the filled set
    colour,                     \* Cell.colour of every cell object
    canvas,                     \* fill of the last create_rectangle per cell
    animate_stop,               \* threading.Event
    animate_running,            \* threading.Event
    main,                       \* the Tk main thread: handler position, locals
    thr                         \* the animation threads

gridVars == <<width, height, step_count, cells, error>>
appVars == <<setOrder, drawn, colour, canvas, animate_stop, animate_running,
             main, thr>>
vars == <<gridVars, appVars>>

\* ------------------------------------------------------------ grid model
\* A step size that is rounded up instead of down (never 0 for w > 0).
StepSizeRoundedUp(w, s) == (w + s - 1) \div s

\* int(self.width / self.step_count), defined for step_count # 0.
StepSize(w, s) == w \div s

\* list(range(start, stop, step)) for step > 0.
RECURSIVE Range(_, _, _)
Range(start, stop, step) ==
    IF start < stop THEN <<start>> \o Range(start + step, stop, step) ELSE <<>>

\* Cell(x0, y0, x1, y1); identity and hash are the bounding box.
Cell(x0, y0, x1, y1) == <<x0, y0, x1, y1>>

\* The inner loop of _get_cells for one x.
RECURSIVE Column(_, _, _)
Column(x, ys, step) ==
    IF ys = <<>> THEN <<>>
    ELSE <<Cell(x, Head(ys), x + step, Head(ys) + step)>> \o Column(x, Tail(ys), step)

RECURSIVE Rows(_, _, _)
Rows(xs, ys, step) ==
    IF xs = <<>> THEN <<>>
    ELSE Column(Head(xs), ys, step) \o Rows(Tail(xs), ys, step)

\* A _get_cells that leaves out the partial strip at the bottom edge.
GetCellsWholeOnly(w, h, step) ==
    Rows(Range(0, w, step), Range(0, h - (h % step), step), step)

\* _get_cells for a step size > 0: x outer, y inner.
GetCells(w, h, step) == Rows(Range(0, w, step), Range(0, h, step), step)

SeqToSet(s) == {s[i] : i \in 1..Len(s)}

\* ------------------------------------------------------- application state
NoCell == <<>>

\* The main thread waiting in root.mainloop().
\* before, dup and log are history (the filled set when reset was invoked;
\* whether go_click picked a cell that was already filled; the cells of the
\* draw commands fill_all has issued, in order): the code never reads them.
MainIdle == [pc |-> "idle", op |-> "none", cell |-> NoCell, idx |-> 0, todo |-> {},
             used |-> 0, col |-> "none", before |-> {}, dup |-> FALSE, log |-> <<>>]

\* A handler has run its last statement and is returning to the main loop;
\* op names the handler and how it ended.
Return(op) == [MainIdle EXCEPT !.pc = "return", !.op = op]

\* A thread slot with no thread in it. The fields tainted, postReset, mine and
\* exit are history: they record what happened, the code never reads them.
NoThread == [pc |-> "none", cell |-> NoCell, idx |-> 0, ref |-> "cur", col |-> "none",
             tainted |-> FALSE, postReset |-> FALSE, mine |-> {}, exit |-> "none"]

Threads == 1..MaxThreads
\* Thread t is executing _animate.
Active(t) == thr[t].pc # "none"

\* WaveFunctionApp.__init__ for the application part.
InitApp ==
    /\ drawn = {}
    /\ animate_stop = FALSE
    /\ animate_running = FALSE
    /\ main = MainIdle
    /\ thr = [t \in Threads |-> NoThread]

\* ---------------------------------------------------------- SpecGrid
InitGrid ==
    /\ width \in 0..MaxWidth
    /\ height \in 0..MaxHeight
    /\ step_count \in 0..MaxStepCount
    /\ cells = None
    /\ error = "none"
    /\ setOrder = <<>>
    /\ colour = <<>>
    /\ canvas = <<>>
    /\ InitApp

\* First access of the cells property, step_count = 0: the step_size property
\* divides by zero.
CellsZeroDivision ==
    /\ cells = None /\ error = "none"
    /\ step_count = 0
    /\ error' = "ZeroDivisionError"
    /\ UNCHANGED <<width, height, step_count, cells, appVars>>

\* First access, step size 0: range(0, width, 0) raises ValueError.
CellsZeroStep ==
    /\ cells = None /\ error = "none"
    /\ step_count # 0
    /\ StepSize(width, step_count) = 0
    /\ error' = "ValueError"
    /\ UNCHANGED <<width, height, step_count, cells, appVars>>

\* First access, step size > 0: the grid is built and cached.
CellsBuild ==
    /\ cells = None /\ error = "none"
    /\ step_count # 0
    /\ StepSize(width, step_count) > 0
    /\ cells' = Cached(GetCells(width, height, StepSize(width, step_count)))
    /\ UNCHANGED <<width, height, step_count, error, appVars>>

NextGrid == CellsZeroDivision \/ CellsZeroStep \/ CellsBuild

SpecGrid == InitGrid /\ [][NextGrid]_vars

\* ------------------------------------------------------------ application
\* The grid of the running application (its step size is > 0, see Init).
Grid == GetCells(width, height, StepSize(width, step_count))
CellSet == SeqToSet(Grid)

Perms(S) == {f \in [1..Cardinality(S) -> S] : \A i, j \in DOMAIN f : f[i] = f[j] => i = j}

\* The cells property after its test: the caller that saw self._cells is None
\* assigns the list _get_cells returns, any other caller leaves self._cells.
CellsAccess(sawNone) == IF sawNone THEN Cached(Grid) ELSE cells

\* The state when root.mainloop() starts. go() has run _draw_grid, whose
\* range(0, width, step_size) raises for a step size of 0 (and step_size itself
\* for step_count = 0), so only configurations with step_size > 0 get here.
\* The window has a positive height, so the grid has at least one cell.
Init ==
    /\ width \in 1..MaxWidth
    /\ height \in 1..MaxHeight
    /\ step_count \in 1..MaxStepCount
    /\ StepSize(width, step_count) > 0
    /\ Len(Grid) <= MaxCells
    /\ cells = None
    /\ error = "none"
    /\ setOrder \in Perms(CellSet)
    /\ colour = [c \in CellSet |-> CELL_DEFAULT_COLOUR]
    /\ canvas = [c \in CellSet |-> NotDrawn]
    /\ InitApp

\* colour_cell(cell, canvas, colour)
ColourCell(cv, c, col) == [cv EXCEPT ![c] = col]

\* ---- go_click --------------------------------------------------------------
\* A go_click that may also pick the cell just past the right edge.
GoClickChooseOffGrid ==
    /\ \/ main.pc = "idle" /\ cells # None
       \/ main.pc = "gc_cells"
    /\ cells' = CellsAccess(main.pc = "gc_cells")
    /\ \E c \in SeqToSet(CellsAccess(main.pc = "gc_cells").list) \cup
                {Cell(width, 0, width + StepSize(width, step_count),
                      StepSize(width, step_count))} :
           main' = [MainIdle EXCEPT !.pc = "gc_add", !.cell = c]
    /\ UNCHANGED <<width, height, step_count, error, setOrder, drawn, colour,
                   canvas, animate_stop, animate_running, thr>>

\* self.cells in go_click: if self._cells is None, found true
GoClickCells ==
    /\ main.pc = "idle"
    /\ cells = None
    /\ main' = [MainIdle EXCEPT !.pc = "gc_cells"]
    /\ UNCHANGED <<gridVars, setOrder, drawn, colour, canvas, animate_stop,
                   animate_running, thr>>

\* next = random.choice(list(self.cells)), from the test that found a list or
\* from self._cells = self._get_cells()
GoClickChoose ==
    /\ \/ main.pc = "idle" /\ cells # None
       \/ main.pc = "gc_cells"
    /\ cells' = CellsAccess(main.pc = "gc_cells")
    /\ \E c \in SeqToSet(CellsAccess(main.pc = "gc_cells").list) :
           main' = [MainIdle EXCEPT !.pc = "gc_add", !.cell = c]
    /\ UNCHANGED <<width, height, step_count, error, setOrder, drawn, colour,
                   canvas, animate_stop, animate_running, thr>>

\* self.drawn.add(next)
GoClickAdd ==
    /\ main.pc = "gc_add"
    /\ drawn' = drawn \cup {main.cell}
    /\ main' = [main EXCEPT !.pc = "gc_draw", !.dup = main.cell \in drawn]
    /\ UNCHANGED <<gridVars, setOrder, colour, canvas, animate_stop,
                   animate_running, thr>>

\* colour_cell(next, self.canvas, "blue"); the handler returns
GoClickDraw ==
    /\ main.pc = "gc_draw"
    /\ canvas' = ColourCell(canvas, main.cell, FILL_COLOUR)
    /\ main' = Return("go_click")
    /\ UNCHANGED <<gridVars, setOrder, drawn, colour, animate_stop,
                   animate_running, thr>>

\* ---- fill_all --------------------------------------------------------------
\* A fill_all whose loop stops one cell early.
FillAllAdvanceShort(m) ==
    IF m.idx < Len(setOrder) - 1
    THEN [m EXCEPT !.pc = "fa_colour", !.cell = setOrder[m.idx + 1], !.idx = m.idx + 1]
    ELSE [Return("fill_all") EXCEPT !.log = m.log]

\* The for statement of fill_all moving on: the next cell of set(self._cells),
\* or the end of the handler.
FillAllAdvance(m) ==
    IF m.idx < Len(setOrder)
    THEN [m EXCEPT !.pc = "fa_colour", !.cell = setOrder[m.idx + 1], !.idx = m.idx + 1]
    ELSE [Return("fill_all") EXCEPT !.log = m.log]

\* self.cells in fill_all: if self._cells is None, found true
FillAllCells ==
    /\ main.pc = "idle"
    /\ cells = None
    /\ main' = [MainIdle EXCEPT !.pc = "fa_cells"]
    /\ UNCHANGED <<gridVars, setOrder, drawn, colour, canvas, animate_stop,
                   animate_running, thr>>

\* for cell in self.cells: (the property is read once, the set iterated), from
\* the test that found a list or from self._cells = self._get_cells()
FillAllStart ==
    /\ \/ main.pc = "idle" /\ cells # None
       \/ main.pc = "fa_cells"
    /\ cells' = CellsAccess(main.pc = "fa_cells")
    /\ main' = FillAllAdvance(MainIdle)
    /\ UNCHANGED <<width, height, step_count, error, setOrder, drawn, colour,
                   canvas, animate_stop, animate_running, thr>>

\* cell.colour = "blue"
FillAllColour ==
    /\ main.pc = "fa_colour"
    /\ colour' = [colour EXCEPT ![main.cell] = FILL_COLOUR]
    /\ main' = [main EXCEPT !.pc = "fa_add"]
    /\ UNCHANGED <<gridVars, setOrder, drawn, canvas, animate_stop,
                   animate_running, thr>>

\* self.drawn.add(cell)
FillAllAdd ==
    /\ main.pc = "fa_add"
    /\ drawn' = drawn \cup {main.cell}
    /\ main' = [main EXCEPT !.pc = "fa_draw"]
    /\ UNCHANGED <<gridVars, setOrder, colour, canvas, animate_stop,
                   animate_running, thr>>

\* A fill_all that issues no draw command for a cell the canvas shows filled.
FillAllDrawSkipsBlue ==
    /\ main.pc = "fa_draw"
    /\ canvas' = ColourCell(canvas, main.cell, colour[main.cell])
    /\ main' = FillAllAdvance(IF canvas[main.cell] = FILL_COLOUR
                              THEN main
                              ELSE [main EXCEPT !.log = Append(@, main.cell)])
    /\ UNCHANGED <<gridVars, setOrder, drawn, colour, animate_stop,
                   animate_running, thr>>

\* colour_cell(cell, self.canvas, cell.colour), then the next cell or return
FillAllDraw ==
    /\ main.pc = "fa_draw"
    /\ canvas' = ColourCell(canvas, main.cell, colour[main.cell])
    /\ main' = FillAllAdvance([main EXCEPT !.log = Append(@, main.cell)])
    /\ UNCHANGED <<gridVars, setOrder, drawn, colour, animate_stop,
                   animate_running, thr>>

\* ---- reset -----------------------------------------------------------------
\* self.animate_stop.set()
ResetSet ==
    /\ main.pc = "idle"
    /\ animate_stop' = TRUE
    /\ main' = [MainIdle EXCEPT !.pc = "r_iter", !.before = drawn]
    /\ thr' = [t \in Threads |->
                 IF Active(t) THEN [thr[t] EXCEPT !.tainted = TRUE] ELSE thr[t]]
    /\ UNCHANGED <<gridVars, setOrder, drawn, colour, canvas, animate_running>>

\* for cell in self.drawn: the set iterator is created and remembers the size
\* of the set.
ResetIter ==
    /\ main.pc = "r_iter"
    /\ main' = [main EXCEPT !.pc = "r_next", !.todo = drawn,
                            !.used = Cardinality(drawn)]
    /\ UNCHANGED <<gridVars, setOrder, drawn, colour, canvas, animate_stop,
                   animate_running, thr>>

\* The iterator is asked for the next cell and the set has another size than
\* when the iterator was created: RuntimeError("Set changed size during
\* iteration") leaves the handler; Tk reports it and the main loop goes on.
ResetRaise ==
    /\ main.pc = "r_next"
    /\ Cardinality(drawn) # main.used
    /\ main' = Return("reset_raised")
    /\ UNCHANGED <<gridVars, setOrder, drawn, colour, canvas, animate_stop,
                   animate_running, thr>>

\* The iterator yields the next cell, in the order of the set's table.
ResetNext ==
    /\ main.pc = "r_next"
    /\ Cardinality(drawn) = main.used
    /\ \E c \in main.todo :
           main' = [main EXCEPT !.pc = "r_colour", !.cell = c, !.todo = @ \ {c}]
    /\ UNCHANGED <<gridVars, setOrder, drawn, colour, canvas, animate_stop,
                   animate_running, thr>>

\* The iterator is exhausted: the loop ends.
ResetLoopEnd ==
    /\ main.pc = "r_next"
    /\ Cardinality(drawn) = main.used
    /\ main.todo = {}
    /\ main' = [main EXCEPT !.pc = "r_sleep", !.cell = NoCell]
    /\ UNCHANGED <<gridVars, setOrder, drawn, colour, canvas, animate_stop,
                   animate_running, thr>>

\* cell.colour = CELL_DEFAULT_COLOUR
ResetColour ==
    /\ main.pc = "r_colour"
    /\ colour' = [colour EXCEPT ![main.cell] = CELL_DEFAULT_COLOUR]
    /\ main' = [main EXCEPT !.pc = "r_arg"]
    /\ UNCHANGED <<gridVars, setOrder, drawn, canvas, animate_stop,
                   animate_running, thr>>

\* colour_cell(cell, self.canvas, cell.colour): the argument cell.colour is read
ResetArg ==
    /\ main.pc = "r_arg"
    /\ main' = [main EXCEPT !.pc = "r_draw", !.col = colour[main.cell]]
    /\ UNCHANGED <<gridVars, setOrder, drawn, colour, canvas, animate_stop,
                   animate_running, thr>>

\* colour_cell(cell, self.canvas, cell.colour): the rectangle is created
ResetDraw ==
    /\ main.pc = "r_draw"
    /\ canvas' = ColourCell(canvas, main.cell, main.col)
    /\ main' = [main EXCEPT !.pc = "r_next", !.col = "none"]
    /\ UNCHANGED <<gridVars, setOrder, drawn, colour, animate_stop,
                   animate_running, thr>>

\* time.sleep(0.5)
ResetSleep ==
    /\ main.pc = "r_sleep"
    /\ main' = [main EXCEPT !.pc = "r_clear"]
    /\ UNCHANGED <<gridVars, setOrder, drawn, colour, canvas, animate_stop,
                   animate_running, thr>>

\* self.animate_stop.clear()
ResetClear ==
    /\ main.pc = "r_clear"
    /\ animate_stop' = FALSE
    /\ main' = [main EXCEPT !.pc = "r_assign"]
    /\ UNCHANGED <<gridVars, setOrder, drawn, colour, canvas, animate_running,
                   thr>>

\* self.drawn = set(); the handler returns. A thread that has read self.drawn
\* and not yet called add keeps the replaced set.
ResetAssign ==
    /\ main.pc = "r_assign"
    /\ drawn' = {}
    /\ main' = [Return("reset") EXCEPT !.before = main.before]
    /\ thr' = [t \in Threads |->
                 IF Active(t)
                 THEN [thr[t] EXCEPT !.postReset = TRUE,
                                     !.ref = IF thr[t].pc = "a_add" THEN "old" ELSE @]
                 ELSE thr[t]]
    /\ UNCHANGED <<gridVars, setOrder, colour, canvas, animate_stop,
                   animate_running>>

\* ---- animate ---------------------------------------------------------------
\* if not self.animate_running.is_set(): with the flag set, nothing is done
AnimateNoop ==
    /\ main.pc = "idle"
    /\ animate_running
    /\ main' = Return("animate_noop")
    /\ UNCHANGED <<gridVars, setOrder, drawn, colour, canvas, animate_stop,
                   animate_running, thr>>

\* An animate that does not look at the running flag.
AnimateEnterUnguarded ==
    /\ main.pc = "idle"
    /\ main' = [MainIdle EXCEPT !.pc = "an_set"]
    /\ UNCHANGED <<gridVars, setOrder, drawn, colour, canvas, animate_stop,
                   animate_running, thr>>

\* if not self.animate_running.is_set(): with the flag clear, the body runs
AnimateEnter ==
    /\ main.pc = "idle"
    /\ ~animate_running
    /\ main' = [MainIdle EXCEPT !.pc = "an_set"]
    /\ UNCHANGED <<gridVars, setOrder, drawn, colour, canvas, animate_stop,
                   animate_running, thr>>

\* self.animate_running.set()
AnimateSet ==
    /\ main.pc = "an_set"
    /\ animate_running' = TRUE
    /\ main' = [main EXCEPT !.pc = "an_start"]
    /\ UNCHANGED <<gridVars, setOrder, drawn, colour, canvas, animate_stop,
                   thr>>

\* threading.Thread(target=self._animate).start(); the handler returns
AnimateStart ==
    /\ main.pc = "an_start"
    /\ \E t \in Threads :
         /\ thr[t].pc = "none"
         /\ \A u \in Threads : u < t => thr[u].pc # "none"
         /\ thr' = [thr EXCEPT ![t] = [NoThread EXCEPT !.pc = "a_start",
                                                      !.tainted = animate_stop]]
    /\ main' = Return("animate")
    /\ UNCHANGED <<gridVars, setOrder, drawn, colour, canvas, animate_stop,
                   animate_running>>

\* ---- the main loop ----------------------------------------------------------
\* The handler has returned: the main thread waits for the next event.
MainReturn ==
    /\ main.pc = "return"
    /\ main' = MainIdle
    /\ UNCHANGED <<gridVars, setOrder, drawn, colour, canvas, animate_stop,
                   animate_running, thr>>

\* ---- _animate, one thread --------------------------------------------------
\* The for statement of _animate moving on: the next cell of set(self._cells),
\* or the end of the loop.
AnimAdvance(r) ==
    IF r.idx < Len(setOrder)
    THEN [r EXCEPT !.pc = "a_stop", !.cell = setOrder[r.idx + 1], !.idx = r.idx + 1]
    ELSE [r EXCEPT !.pc = "a_clear", !.cell = NoCell, !.exit = "complete"]

\* self.cells in _animate: if self._cells is None, found true
AnimCells(t) ==
    /\ thr[t].pc = "a_start"
    /\ cells = None
    /\ thr' = [thr EXCEPT ![t].pc = "a_cells"]
    /\ UNCHANGED <<gridVars, setOrder, drawn, colour, canvas, animate_stop,
                   animate_running, main>>

\* for cell in self.cells: (the property is read once, the set iterated), from
\* the test that found a list or from self._cells = self._get_cells()
AnimStart(t) ==
    /\ \/ thr[t].pc = "a_start" /\ cells # None
       \/ thr[t].pc = "a_cells"
    /\ cells' = CellsAccess(thr[t].pc = "a_cells")
    /\ thr' = [thr EXCEPT ![t] = AnimAdvance(thr[t])]
    /\ UNCHANGED <<width, height, step_count, error, setOrder, drawn, colour,
                   canvas, animate_stop, animate_running, main>>

\* An _animate that tests the stop signal after filling the cell, not before.
AnimStopLate(t) ==
    /\ thr[t].pc = "a_stop"
    /\ drawn' = IF animate_stop THEN drawn \cup {thr[t].cell} ELSE drawn
    /\ thr' = [thr EXCEPT ![t] =
                 IF animate_stop
                 THEN [@ EXCEPT !.pc = "a_clear", !.cell = NoCell, !.exit = "break",
                                !.mine = @ \cup {thr[t].cell}]
                 ELSE [@ EXCEPT !.pc = "a_in"]]
    /\ UNCHANGED <<gridVars, setOrder, colour, canvas, animate_stop,
                   animate_running, main>>

\* if self.animate_stop.is_set(): break
AnimStop(t) ==
    /\ thr[t].pc = "a_stop"
    /\ thr' = [thr EXCEPT ![t] =
                 IF animate_stop
                 THEN [@ EXCEPT !.pc = "a_clear", !.cell = NoCell, !.exit = "break"]
                 ELSE [@ EXCEPT !.pc = "a_in"]]
    /\ UNCHANGED <<gridVars, setOrder, drawn, colour, canvas, animate_stop,
                   animate_running, main>>

\* An _animate with the membership test the wrong way round.
AnimInInverted(t) ==
    /\ thr[t].pc = "a_in"
    /\ thr' = [thr EXCEPT ![t] =
                 IF thr[t].cell \in drawn
                 THEN [@ EXCEPT !.pc = "a_colour"]
                 ELSE AnimAdvance(@)]
    /\ UNCHANGED <<gridVars, setOrder, drawn, colour, canvas, animate_stop,
                   animate_running, main>>

\* if cell not in self.drawn: otherwise on to the next cell
AnimIn(t) ==
    /\ thr[t].pc = "a_in"
    /\ thr' = [thr EXCEPT ![t] =
                 IF thr[t].cell \notin drawn
                 THEN [@ EXCEPT !.pc = "a_colour"]
                 ELSE AnimAdvance(@)]
    /\ UNCHANGED <<gridVars, setOrder, drawn, colour, canvas, animate_stop,
                   animate_running, main>>

\* cell.colour = "blue"
AnimColour(t) ==
    /\ thr[t].pc = "a_colour"
    /\ colour' = [colour EXCEPT ![thr[t].cell] = FILL_COLOUR]
    /\ thr' = [thr EXCEPT ![t].pc = "a_load"]
    /\ UNCHANGED <<gridVars, setOrder, drawn, canvas, animate_stop,
                   animate_running, main>>

\* self.drawn (the attribute is read, giving the set that add is called on)
AnimLoad(t) ==
    /\ thr[t].pc = "a_load"
    /\ thr' = [thr EXCEPT ![t].pc = "a_add", ![t].ref = "cur"]
    /\ UNCHANGED <<gridVars, setOrder, drawn, colour, canvas, animate_stop,
                   animate_running, main>>

\* .add(cell), on the set that was read: self._drawn, or a set reset replaced
AnimAdd(t) ==
    /\ thr[t].pc = "a_add"
    /\ drawn' = IF thr[t].ref = "cur" THEN drawn \cup {thr[t].cell} ELSE drawn
    /\ thr' = [thr EXCEPT ![t].pc = "a_arg", ![t].ref = "cur",
                          ![t].mine = @ \cup {thr[t].cell}]
    /\ UNCHANGED <<gridVars, setOrder, colour, canvas, animate_stop,
                   animate_running, main>>

\* colour_cell(cell, self.canvas, cell.colour): the argument cell.colour is read
AnimArg(t) ==
    /\ thr[t].pc = "a_arg"
    /\ thr' = [thr EXCEPT ![t].pc = "a_draw", ![t].col = colour[thr[t].cell]]
    /\ UNCHANGED <<gridVars, setOrder, drawn, colour, canvas, animate_stop,
                   animate_running, main>>

\* colour_cell(cell, self.canvas, cell.colour): the rectangle is created
AnimDraw(t) ==
    /\ thr[t].pc = "a_draw"
    /\ canvas' = ColourCell(canvas, thr[t].cell, thr[t].col)
    /\ thr' = [thr EXCEPT ![t].pc = "a_sleep", ![t].col = "none"]
    /\ UNCHANGED <<gridVars, setOrder, drawn, colour, animate_stop,
                   animate_running, main>>

\* self.canvas.update(); time.sleep(ANIMATE_DELAY); then the next cell
AnimSleep(t) ==
    /\ thr[t].pc = "a_sleep"
    /\ thr' = [thr EXCEPT ![t] = AnimAdvance(@)]
    /\ UNCHANGED <<gridVars, setOrder, drawn, colour, canvas, animate_stop,
                   animate_running, main>>

\* An _animate that returns without clearing the running flag.
AnimClearKeepsFlag(t) ==
    /\ thr[t].pc = "a_clear"
    /\ thr' = [thr EXCEPT ![t] = NoThread]
    /\ UNCHANGED <<gridVars, setOrder, drawn, colour, canvas, animate_stop,
                   animate_running, main>>

\* self.animate_running.clear(); _animate returns and the thread ends
AnimClear(t) ==
    /\ thr[t].pc = "a_clear"
    /\ animate_running' = FALSE
    /\ thr' = [thr EXCEPT ![t] = NoThread]
    /\ UNCHANGED <<gridVars, setOrder, drawn, colour, canvas, animate_stop,
                   main>>

Animation(t) ==
    \/ AnimCells(t) \/ AnimStart(t) \/ AnimStop(t) \/ AnimIn(t) \/ AnimColour(t) \/ AnimLoad(t)
    \/ AnimAdd(t) \/ AnimArg(t) \/ AnimDraw(t) \/ AnimSleep(t) \/ AnimClear(t)

Next ==
    \/ GoClickCells \/ GoClickChoose \/ GoClickAdd \/ GoClickDraw
    \/ FillAllCells \/ FillAllStart \/ FillAllColour \/ FillAllAdd \/ FillAllDraw
    \/ ResetSet \/ ResetIter \/ ResetRaise \/ ResetNext \/ ResetLoopEnd
    \/ ResetColour \/ ResetArg \/ ResetDraw \/ ResetSleep \/ ResetClear \/ ResetAssign
    \/ AnimateNoop \/ AnimateEnter \/ AnimateSet \/ AnimateStart
    \/ MainReturn
    \/ \E t \in Threads : Animation(t)

Spec == Init /\ [][Next]_vars

\* A handler that has started runs on: the main thread is never suspended for
\* ever inside a handler. (When the next button is pressed is up to the user.)
MainStep ==
    \/ main.pc = "gc_cells" /\ GoClickChoose
    \/ main.pc = "fa_cells" /\ FillAllStart
    \/ GoClickAdd \/ GoClickDraw
    \/ FillAllColour \/ FillAllAdd \/ FillAllDraw
    \/ ResetIter \/ ResetRaise \/ ResetNext \/ ResetLoopEnd
    \/ ResetColour \/ ResetArg \/ ResetDraw \/ ResetSleep \/ ResetClear \/ ResetAssign
    \/ AnimateSet \/ AnimateStart
    \/ MainReturn

\* The application under fair scheduling: a started thread and a started
\* handler keep being scheduled by the interpreter.
SpecLive ==
    /\ Init /\ [][Next]_vars
    /\ WF_vars(MainStep)
    /\ \A t \in Threads : WF_vars(Animation(t))

\* ------------------------------------------------------------ properties
CeilDiv(a, b) == (a + b - 1) \div b

\* The cells setOrder[1..n], the first n cells a loop over set(self._cells) visits.
Prefix(n) == {setOrder[i] : i \in 1..n}

\* The step is reset executing self.drawn = set() and returning.
ResetReturns == main.pc = "r_assign" /\ main'.pc = "return"

\* The step is thread t adding its cell to the filled set, or drawing it.
FillsOrDraws(t) ==
    \/ thr[t].pc = "a_add" /\ thr'[t].pc = "a_arg"
    \/ thr[t].pc = "a_draw" /\ thr'[t].pc = "a_sleep"

\* The step is thread t clearing the running flag at the end of _animate.
LoopEnds(t, how) ==
    /\ thr[t].pc = "a_clear" /\ thr[t].exit = how
    /\ thr'[t].pc = "none"

\* C1: when reset returns the filled set is empty, and every cell that was in
\* the filled set when reset was invoked has the default colour, as its colour
\* attribute and as the fill of its last draw command.
C1_ResetClearsFilled ==
    [][ResetReturns =>
         /\ drawn' = {}
         /\ \A c \in main.before :
                /\ colour'[c] = CELL_DEFAULT_COLOUR
                /\ canvas'[c] = CELL_DEFAULT_COLOUR]_vars

\* C2: an animation loop that was running when reset was invoked neither
\* fills nor draws a cell once that reset has returned.
C2_AnimationStopsAtReset ==
    [][\A t \in Threads : thr[t].postReset => ~FillsOrDraws(t)]_vars

\* C3: at most one animation loop executes at any time, and animate invoked
\* with the running flag set does nothing: it starts no thread and changes
\* neither the filled set nor the flags.
C3_SingleAnimation ==
    /\ [](Cardinality({t \in Threads : Active(t)}) <= 1)
    /\ [][(main.pc = "idle" /\ animate_running
             /\ (main'.pc = "an_set" \/ main'.op = "animate_noop"))
          => /\ main' = Return("animate_noop")
             /\ UNCHANGED <<thr, drawn, animate_running, animate_stop>>]_vars

C3_Witness ==
    /\ main.pc = "return" /\ main.op = "animate_noop"
    /\ \E t \in Threads : Active(t)

\* C4: reset never leaves by an exception, and when it returns the stop signal
\* is clear.
C4_ResetSafe ==
    /\ main.op # "reset_raised"
    /\ main.op = "reset" => ~animate_stop

\* C5: an animation loop that visits every cell, no stop signal having been
\* set while it ran, ends with the filled set equal to the grid's cell set and
\* the running flag clear.
C5_CompleteLoopFillsGrid ==
    [][\A t \in Threads :
         (LoopEnds(t, "complete") /\ ~thr[t].tainted)
         => (drawn' = CellSet /\ ~animate_running')]_vars

C5_Witness ==
    \E t \in Threads :
        /\ thr[t].pc = "a_clear" /\ thr[t].exit = "complete" /\ ~thr[t].tainted
        /\ thr[t].mine # {} /\ thr[t].mine # CellSet
        /\ drawn = CellSet

\* C6 as stated: when a loop that observed the stop signal ends, the filled
\* set is a proper subset of the grid, the cells the loop filled are the cells
\* it visited before the one at which it observed the signal, and the running
\* flag is clear.
C6_StoppedLoopLeavesPrefix ==
    [][\A t \in Threads :
         LoopEnds(t, "break")
         => /\ drawn' \subseteq CellSet /\ drawn' # CellSet
            /\ thr[t].mine = Prefix(thr[t].idx - 1)
            /\ ~animate_running']_vars

\* C6 amended: when a loop that observed the stop signal ends, every cell it
\* filled is one it visited before the cell at which it observed the signal,
\* so the cells it filled are a proper subset of the grid, and the running flag
\* is clear. (The filled set itself may hold cells other operations filled.)
C6_StoppedLoopFillsWithinPrefix ==
    [][\A t \in Threads :
         LoopEnds(t, "break")
         => /\ thr[t].mine \subseteq Prefix(thr[t].idx - 1)
            /\ thr[t].mine # CellSet
            /\ ~animate_running']_vars

C6_Witness ==
    \E t \in Threads :
        /\ thr[t].pc = "a_clear" /\ thr[t].exit = "break"
        /\ thr[t].mine # {}

\* C7: when fill_all returns, the filled set is exactly the grid's cell set.
C7_FillAllFillsGrid ==
    [][(main.pc # "return" /\ main'.pc = "return" /\ main'.op = "fill_all")
          => drawn' = CellSet]_vars

C7_Witness ==
    /\ main.pc = "return" /\ main.op = "fill_all"
    /\ drawn = CellSet
    /\ \E t \in Threads : Active(t)

\* C8: the filled set is always a subset of the grid's cell set; the cell
\* go_click adds is a grid cell, and adding a cell that is already filled
\* leaves the filled set as it was.
C8_FilledWithinGrid ==
    /\ [](drawn \subseteq CellSet)
    /\ [][(main.pc = "gc_add" /\ main'.pc = "gc_draw")
          => /\ main.cell \in CellSet
             /\ drawn' = drawn \cup {main.cell}
             /\ (main.cell \in drawn => drawn' = drawn)]_vars

C8_Witness ==
    /\ main.pc = "gc_draw" /\ main.dup
    /\ main.cell \in drawn

\* C9: a grid built with step size > 0 has ceil(W/step) * ceil(H/step) cells,
\* no two with the same bounding box.
C9_CellCount ==
    cells # None =>
        /\ Len(cells.list) = CeilDiv(width, StepSize(width, step_count))
                        * CeilDiv(height, StepSize(width, step_count))
        /\ Cardinality(SeqToSet(cells.list)) = Len(cells.list)

C9_Witness ==
    /\ cells # None
    /\ Len(cells.list) >= 2
    /\ height % StepSize(width, step_count) # 0

\* C10 as stated: with step_count >= width grid construction fails, so no
\* grid is produced.
C10_FailsWhenStepCountReachesWidth ==
    step_count >= width => cells = None

\* C10 amended: with step_count > width (step size 0) the first access of the
\* grid raises ValueError and no grid is produced; with 1 <= step_count <=
\* width, step_count = width included, the grid is produced.
C10_FailsWhenStepSizeZero ==
    [][/\ step_count > width => (cells' = None /\ error' = "ValueError")
       /\ (1 <= step_count /\ step_count <= width)
             => (cells' # None /\ error' = "none")]_vars

C10_Witness ==
    /\ step_count > width
    /\ error = "ValueError"

\* The step is fill_all executing its last statement and returning.
FillAllReturns == main.pc # "return" /\ main'.pc = "return" /\ main'.op = "fill_all"

\* C11: fill_all and the animation loop visit the cells in the order in which
\* _get_cells produced them: the draw commands of one fill_all are those of
\* the grid list in its order, and the k-th cell an animation loop visits,
\* which it draws if it fills it, is the k-th cell of the grid list.
C11_GridOrder ==
    [][/\ FillAllReturns => main'.log = Grid
       /\ \A t \in Threads :
              (thr[t].pc = "a_draw" /\ thr'[t].pc = "a_sleep")
              => thr[t].cell = Grid[thr[t].idx]]_vars

\* C12: under fair scheduling every animation loop that executes eventually
\* ends and the running flag, once set, is eventually cleared; the flag is
\* only set while a loop executes or animate is about to start its thread.
C12_LoopTerminates ==
    /\ \A t \in Threads : Active(t) ~> ~Active(t)
    /\ animate_running ~> ~animate_running
    /\ [](animate_running => ((\E t \in Threads : Active(t)) \/ main.pc = "an_start"))

C12_Witness ==
    /\ \E t \in Threads : thr[t].pc = "a_clear" /\ thr[t].mine # {}
    /\ animate_running
    /\ main.pc = "idle"

\* The step calls _get_cells and assigns its result to self._cells.
GetCellsCalled ==
    \/ main.pc \in {"gc_cells", "fa_cells"} /\ main'.pc # main.pc
    \/ \E t \in Threads : thr[t].pc = "a_cells" /\ thr'[t].pc # "a_cells"

\* C13: the grid is computed once: _get_cells is called, and self._cells
\* assigned, only while self._cells is None, so the list that the first access
\* cached is never replaced; and no step changes the cell set of a cached grid.
C13_ComputedOnce ==
    [][/\ GetCellsCalled => cells = None
       /\ cells # None => cells' = cells]_vars

\* C14: the animation loop fills a cell only if the cell is not in the filled
\* set: at the step at which a thread adds its cell to the filled set, no other
\* operation has filled that cell.
C14_FillsOnlyUnfilled ==
    [][\A t \in Threads :
           (thr[t].pc = "a_add" /\ thr'[t].pc = "a_arg") => thr[t].cell \notin drawn]_vars

\* C15: when fill_all returns it has issued exactly N draw commands, one for
\* each of the N grid cells, and the filled set has size N; a reset called
\* while the filled set holds all N cells, as it does after fill_all, does not
\* raise and returns with a filled set of size 0.
C15_FillAllDrawsEachCellOnce ==
    [][/\ FillAllReturns
          => /\ Len(main'.log) = Len(Grid)
             /\ SeqToSet(main'.log) = CellSet
             /\ Cardinality(drawn') = Len(Grid)
       /\ (main.pc \in {"r_iter", "r_next", "r_assign"} /\ main.before = CellSet)
          => /\ main'.op # "reset_raised"
             /\ main'.pc = "return" => Cardinality(drawn') = 0]_vars

C15_Witness ==
    /\ main.pc = "return" /\ main.op = "reset"
    /\ main.before = CellSet
    /\ Cardinality(CellSet) >= 2
    /\ Cardinality(drawn) = 0

\* A reset call is executing: the main thread is between reset's first
\* statement and its last.
ResetExecuting ==
    main.pc \in {"r_iter", "r_next", "r_colour", "r_arg", "r_draw",
                 "r_sleep", "r_clear", "r_assign"}

\* C16: while no reset is executing, every cell whose most recent draw command
\* used the filled colour is in the filled set.
C16_DisplayedFillIsRecorded ==
    ~ResetExecuting => \A c \in CellSet : canvas[c] = FILL_COLOUR => c \in drawn

\* C17: the stop signal is set only while a reset call is executing.
C17_StopOnlyDuringReset ==
    ~ResetExecuting => ~animate_stop

====
